---- MODULE Spec2Model ----
(***************************************************************************)
(* GeoJSON emitter (geozero-core-out/src/geojson.rs) and ProcessorSink     *)
(* (geozero/src/lib.rs) as state machines.                                 *)
(*                                                                         *)
(* The destination `out` is a sequence of one-character strings.  A        *)
(* traversal driver delivers the callbacks of one geometry, one callback   *)
(* per step.  Every `self.out.write(..).unwrap()` may meet a destination   *)
(* that returns Err, in which case unwrap panics and the stack unwinds     *)
(* through the handler and the driver.  In Spec a write that returns Ok    *)
(* has taken the whole buffer.                                             *)
(***************************************************************************)
EXTENDS Integers, Sequences, FiniteSets, TLC

VARIABLES
    geom,      \* the geometry the driver traverses (input, fixed)
    events,    \* the callbacks the driver issues for geom, in order
    pc,        \* index in events of the next callback
    em,        \* the emitter with its destination: out, res, failed, panicked
    twin,      \* a second emitter fed the same callbacks with other size hints
    ret,       \* how the last callback came back to the driver
    sink,      \* the ProcessorSink value
    sinkRet,   \* result of the last ProcessorSink callback
    sinkOut,   \* what ProcessorSink callbacks have emitted
    sinkLog,   \* the events delivered to the ProcessorSink
    mux        \* the multiplexer and what its sub-consumers have received

vars == <<geom, events, pc, em, twin, ret, sink, sinkRet, sinkOut, sinkLog, mux>>

emitterVars == <<geom, events, pc, em, twin, ret>>
sinkVars == <<sink, sinkRet, sinkOut, sinkLog>>

----------------------------------------------------------------------------
(* Bounds *)

MaxPts == 2        \* points in one flat list (MultiPoint, LineString, ring)
MaxParts == 2      \* rings in a polygon, lines in a MultiLineString
MaxPolys == 2      \* polygons in a MultiPolygon
MaxTopIdx == 1     \* index given to the top-level begin callback
MaxSize == 2       \* size hints handed to the twin emitter
MaxSinkEvents == 2 \* events delivered to the ProcessorSink
MaxMuxEvents == 2  \* events delivered to the multiplexer
MaxAccept == 2     \* bytes a short-writing destination takes per call

----------------------------------------------------------------------------
(* Byte literals of geojson.rs *)

PointHeader ==
    << "{", "\"", "t", "y", "p", "e", "\"", ":", " ", "\"", "P", "o", "i",
       "n", "t", "\"", ",", " ", "\"", "c", "o", "o", "r", "d", "i", "n",
       "a", "t", "e", "s", "\"", ":", " " >>

MultiPointHeader ==
    << "{", "\"", "t", "y", "p", "e", "\"", ":", " ", "\"", "M", "u", "l",
       "t", "i", "P", "o", "i", "n", "t", "\"", ",", " ", "\"", "c", "o",
       "o", "r", "d", "i", "n", "a", "t", "e", "s", "\"", ":", " ", "[" >>

LineStringHeader ==
    << "{", "\"", "t", "y", "p", "e", "\"", ":", " ", "\"", "L", "i", "n",
       "e", "S", "t", "r", "i", "n", "g", "\"", ",", " ", "\"", "c", "o",
       "o", "r", "d", "i", "n", "a", "t", "e", "s", "\"", ":", " ", "[" >>

MultiLineStringHeader ==
    << "{", "\"", "t", "y", "p", "e", "\"", ":", " ", "\"", "M", "u", "l",
       "t", "i", "L", "i", "n", "e", "S", "t", "r", "i", "n", "g", "\"", ",",
       " ", "\"", "c", "o", "o", "r", "d", "i", "n", "a", "t", "e", "s",
       "\"", ":", " ", "[" >>

PolygonHeader ==
    << "{", "\"", "t", "y", "p", "e", "\"", ":", " ", "\"", "P", "o", "l",
       "y", "g", "o", "n", "\"", ",", " ", "\"", "c", "o", "o", "r", "d",
       "i", "n", "a", "t", "e", "s", "\"", ":", " ", "[" >>

MultiPolygonHeader ==
    << "{", "\"", "t", "y", "p", "e", "\"", ":", " ", "\"", "M", "u", "l",
       "t", "i", "P", "o", "l", "y", "g", "o", "n", "\"", ",", " ", "\"",
       "c", "o", "o", "r", "d", "i", "n", "a", "t", "e", "s", "\"", ":", " ",
       "[" >>

----------------------------------------------------------------------------
(* format!("[{},{}]", x, y): Display of f64.  A coordinate value v stands  *)
(* for the f64 v/10; Display prints the shortest decimal that round-trips, *)
(* without a fractional part when the value is integral.                   *)

Digit(d) == <<"0", "1", "2", "3", "4", "5", "6", "7", "8", "9">>[d + 1]

RECURSIVE Digits(_)
Digits(n) ==
    IF n < 10 THEN <<Digit(n)>> ELSE Digits(n \div 10) \o <<Digit(n % 10)>>

fmt_f64(v) ==
    LET a == IF v < 0 THEN -v ELSE v
    IN  (IF v < 0 THEN <<"-">> ELSE <<>>)
        \o Digits(a \div 10)
        \o (IF a % 10 = 0 THEN <<>> ELSE <<".", Digit(a % 10)>>)

format_xy(x, y) == <<"[">> \o fmt_f64(x) \o <<",">> \o fmt_f64(y) \o <<"]">>

----------------------------------------------------------------------------
(* The destination and unwrap *)

\* limit: the most bytes the destination takes in one write call, 0 for a
\* destination that takes every buffer whole
GeoJsonEmitter_new ==
    [out |-> <<>>, res |-> "Ok", failed |-> FALSE, panicked |-> FALSE,
     limit |-> 0]

\* the part of buf the destination takes in one call
Accepted(e, buf) ==
    IF e.limit = 0 \/ Len(buf) <= e.limit THEN buf ELSE SubSeq(buf, 1, e.limit)

\* W::write(buf): Ok(n) with the n accepted bytes appended, or Err with
\* nothing appended.  The handlers never look at n.
write(e, buf, ok) ==
    IF ok THEN [e EXCEPT !.out = @ \o Accepted(e, buf), !.res = "Ok"]
          ELSE [e EXCEPT !.res = "Err", !.failed = TRUE]

\* the write result dropped instead of unwrapped
unwrap_ignored(e) == e

\* Result::unwrap: panics on Err.
unwrap(e) == IF e.res = "Err" THEN [e EXCEPT !.panicked = TRUE] ELSE e

\* self.out.write(buf).unwrap(); not reached once the handler is unwinding.
write_unwrap(e, buf, ok) ==
    IF e.panicked THEN e ELSE unwrap(write(e, buf, ok))

\* separator written before the first sibling too
comma_always(e, idx, ok) == write_unwrap(e, <<",">>, ok)

\* the separator decided by a process-wide "something was written" flag
\* instead of the index
comma_static(e, idx, ok) ==
    IF em.out # <<>> THEN write_unwrap(e, <<",">>, ok) ELSE e

comma(e, idx, ok) == IF idx > 0 THEN write_unwrap(e, <<",">>, ok) ELSE e

----------------------------------------------------------------------------
(* impl GeomReader for GeoJsonEmitter *)

pointxy(e, x, y, idx, ok1, ok2) ==
    write_unwrap(comma(e, idx, ok1), format_xy(x, y), ok2)

\* the position wrapped in an enclosing array
point_begin_array(e, idx, ok1, ok2) ==
    write_unwrap(comma(e, idx, ok1), PointHeader \o <<"[">>, ok2)

point_begin(e, idx, ok1, ok2) ==
    write_unwrap(comma(e, idx, ok1), PointHeader, ok2)

point_end(e, ok) == write_unwrap(e, <<"}">>, ok)

multipoint_begin(e, size, idx, ok1, ok2) ==
    write_unwrap(comma(e, idx, ok1), MultiPointHeader, ok2)

\* the object left open
multipoint_end_open(e, ok) == write_unwrap(e, <<"]">>, ok)

multipoint_end(e, ok) == write_unwrap(e, <<"]", "}">>, ok)

line_begin(e, size, idx, ok1, ok2) ==
    write_unwrap(comma(e, idx, ok1), LineStringHeader, ok2)

line_end(e, idx, ok) == write_unwrap(e, <<"]", "}">>, ok)

multiline_begin(e, size, idx, ok1, ok2) ==
    write_unwrap(comma(e, idx, ok1), MultiLineStringHeader, ok2)

multiline_end(e, ok) == write_unwrap(e, <<"]", "}">>, ok)

\* the open bracket skipped for a ring announced as empty
ring_begin_sized(e, size, idx, ok1, ok2) ==
    IF size = 0 THEN comma(e, idx, ok1)
    ELSE write_unwrap(comma(e, idx, ok1), <<"[">>, ok2)

ring_begin(e, size, idx, ok1, ok2) ==
    write_unwrap(comma(e, idx, ok1), <<"[">>, ok2)

\* the closing bracket kept back instead of written
ring_end_buffered(e, idx, ok) == e

ring_end(e, idx, ok) == write_unwrap(e, <<"]">>, ok)

poly_begin(e, size, idx, ok1, ok2) ==
    write_unwrap(comma(e, idx, ok1), PolygonHeader, ok2)

poly_end(e, idx, ok) == write_unwrap(e, <<"]">>, ok)

\* a nested Polygon object instead of a bare array
subpoly_begin_typed(e, size, idx, ok1, ok2) ==
    write_unwrap(comma(e, idx, ok1), PolygonHeader, ok2)

subpoly_begin(e, size, idx, ok1, ok2) ==
    write_unwrap(comma(e, idx, ok1), <<"[">>, ok2)

subpoly_end(e, idx, ok) == write_unwrap(e, <<"]">>, ok)

multipoly_begin(e, size, idx, ok1, ok2) ==
    write_unwrap(comma(e, idx, ok1), MultiPolygonHeader, ok2)

multipoly_end(e, ok) == write_unwrap(e, <<"]", "}">>, ok)

----------------------------------------------------------------------------
(* The traversal driver: the callbacks a well-formed driver issues for a   *)
(* geometry (begin before children, end after them, sibling indices        *)
(* 0,1,2,...).                                                             *)

Ev(op, x, y, idx, n) == [op |-> op, x |-> x, y |-> y, idx |-> idx, n |-> n]

RECURSIVE Flatten(_)
Flatten(ss) == IF ss = <<>> THEN <<>> ELSE Head(ss) \o Flatten(Tail(ss))

PointEvents(pts) ==
    [i \in 1..Len(pts) |-> Ev("pointxy", pts[i][1], pts[i][2], i - 1, 0)]

Bracket(beginOp, endOp, idx, n, inner) ==
    <<Ev(beginOp, 0, 0, idx, n)>> \o inner \o <<Ev(endOp, 0, 0, idx, n)>>

RingEvents(ring, r) ==
    Bracket("ring_begin", "ring_end", r, Len(ring), PointEvents(ring))

RingsEvents(rings) ==
    Flatten([r \in 1..Len(rings) |-> RingEvents(rings[r], r - 1)])

LineEvents(line, l) ==
    Bracket("line_begin", "line_end", l, Len(line), PointEvents(line))

SubpolyEvents(rings, p) ==
    Bracket("subpoly_begin", "subpoly_end", p, Len(rings), RingsEvents(rings))

Events(g, top) ==
    CASE g.kind = "Point" ->
           Bracket("point_begin", "point_end", top, 1, PointEvents(g.pts))
      [] g.kind = "MultiPoint" ->
           Bracket("multipoint_begin", "multipoint_end", top, Len(g.pts),
                   PointEvents(g.pts))
      [] g.kind = "LineString" -> LineEvents(g.pts, top)
      [] g.kind = "MultiLineString" ->
           Bracket("multiline_begin", "multiline_end", top, Len(g.parts),
                   Flatten([l \in 1..Len(g.parts) |->
                               LineEvents(g.parts[l], l - 1)]))
      [] g.kind = "Polygon" ->
           Bracket("poly_begin", "poly_end", top, Len(g.parts),
                   RingsEvents(g.parts))
      [] g.kind = "MultiPolygon" ->
           Bracket("multipoly_begin", "multipoly_end", top, Len(g.polys),
                   Flatten([p \in 1..Len(g.polys) |->
                               SubpolyEvents(g.polys[p], p - 1)]))

----------------------------------------------------------------------------
(* Input geometries *)

Geom(kind, pts, parts, polys) ==
    [kind |-> kind, pts |-> pts, parts |-> parts, polys |-> polys]

SeqsUpTo(S, n) == UNION {[1..k -> S] : k \in 0..n}

\* coordinate values are tenths: <<12, -5>> is the point (1.2, -0.5)
Points == {<<0, 0>>, <<12, -5>>}
Origin == <<0, 0>>

FlatLists == SeqsUpTo(Points, MaxPts)
Rings == SeqsUpTo({Origin}, MaxPts)
RingLists == SeqsUpTo(Rings, MaxParts)
\* polygons of a MultiPolygon: k rings of n points each
RegularPolys ==
    {[r \in 1..k |-> [i \in 1..n |-> Origin]] : k \in 0..MaxParts, n \in 0..MaxPts}

Scenario1 ==
    Geom("Polygon", <<>>,
         << << <<0, 0>>, <<10, 0>>, <<10, 10>>, <<0, 0>> >>,
            << <<2, 2>>, <<8, 2>>, <<8, 8>>, <<2, 2>> >> >>, <<>>)
Scenario2 == Geom("MultiPoint", << <<10, 10>>, <<20, 20>>, <<30, 30>> >>, <<>>, <<>>)
Scenario3 ==
    Geom("LineString",
         << <<0, 0>>, <<10, 0>>, <<10, 10>>, <<0, 10>>, <<2, 8>> >>, <<>>, <<>>)

Geometries ==
    {Geom("Point", <<p>>, <<>>, <<>>) : p \in Points}
    \cup {Geom(k, l, <<>>, <<>>) : k \in {"MultiPoint", "LineString"}, l \in FlatLists}
    \cup {Geom(k, <<>>, rs, <<>>) : k \in {"MultiLineString", "Polygon"}, rs \in RingLists}
    \cup {Geom("MultiPolygon", <<>>, <<>>, ps) : ps \in SeqsUpTo(RegularPolys, MaxPolys)}
    \cup {Scenario1, Scenario2, Scenario3}

----------------------------------------------------------------------------
(* State machine of one traversal *)

\* a multiplexer that has received nothing
MuxIdle ==
    [inp |-> <<>>, trace |-> <<>>, ret |-> "none", failedAt |-> 0, raised |-> "none"]

\* ProcessorSink::new(): a unit struct, no fields
ProcessorSink_new == <<>>

SinkIdle ==
    /\ sink = ProcessorSink_new
    /\ sinkRet = "none"
    /\ sinkOut = <<>>
    /\ sinkLog = <<>>

Init ==
    /\ geom \in Geometries
    /\ \E top \in 0..MaxTopIdx : events = Events(geom, top)
    /\ pc = 1
    /\ em = GeoJsonEmitter_new
    /\ twin = GeoJsonEmitter_new
    /\ ret = "none"
    /\ SinkIdle
    /\ mux = MuxIdle

\* The driver reaches its next callback only if no earlier one panicked.
Next_op(op) == pc <= Len(events) /\ ~em.panicked /\ events[pc].op = op

Cur == events[pc]

\* size hints other than the child count, handed to the twin
WrongSizes(n) == (0..MaxSize) \ {n}

Returned(e) ==
    /\ pc' = pc + 1
    /\ ret' = IF e.panicked THEN "panic" ELSE "unit"
    /\ UNCHANGED <<geom, events, sinkVars, mux>>

Call_pointxy ==
    /\ Next_op("pointxy")
    /\ \E ok1 \in BOOLEAN, ok2 \in BOOLEAN :
          /\ em' = pointxy(em, Cur.x, Cur.y, Cur.idx, ok1, ok2)
          /\ twin' = pointxy(twin, Cur.x, Cur.y, Cur.idx, ok1, ok2)
    /\ Returned(em')

Call_point_begin ==
    /\ Next_op("point_begin")
    /\ \E ok1 \in BOOLEAN, ok2 \in BOOLEAN :
          /\ em' = point_begin(em, Cur.idx, ok1, ok2)
          /\ twin' = point_begin(twin, Cur.idx, ok1, ok2)
    /\ Returned(em')

Call_point_end ==
    /\ Next_op("point_end")
    /\ \E ok \in BOOLEAN :
          /\ em' = point_end(em, ok)
          /\ twin' = point_end(twin, ok)
    /\ Returned(em')

Call_multipoint_begin ==
    /\ Next_op("multipoint_begin")
    /\ \E ok1 \in BOOLEAN, ok2 \in BOOLEAN, size2 \in WrongSizes(Cur.n) :
          /\ em' = multipoint_begin(em, Cur.n, Cur.idx, ok1, ok2)
          /\ twin' = multipoint_begin(twin, size2, Cur.idx, ok1, ok2)
    /\ Returned(em')

Call_multipoint_end ==
    /\ Next_op("multipoint_end")
    /\ \E ok \in BOOLEAN :
          /\ em' = multipoint_end(em, ok)
          /\ twin' = multipoint_end(twin, ok)
    /\ Returned(em')

Call_line_begin ==
    /\ Next_op("line_begin")
    /\ \E ok1 \in BOOLEAN, ok2 \in BOOLEAN, size2 \in WrongSizes(Cur.n) :
          /\ em' = line_begin(em, Cur.n, Cur.idx, ok1, ok2)
          /\ twin' = line_begin(twin, size2, Cur.idx, ok1, ok2)
    /\ Returned(em')

Call_line_end ==
    /\ Next_op("line_end")
    /\ \E ok \in BOOLEAN :
          /\ em' = line_end(em, Cur.idx, ok)
          /\ twin' = line_end(twin, Cur.idx, ok)
    /\ Returned(em')

Call_multiline_begin ==
    /\ Next_op("multiline_begin")
    /\ \E ok1 \in BOOLEAN, ok2 \in BOOLEAN, size2 \in WrongSizes(Cur.n) :
          /\ em' = multiline_begin(em, Cur.n, Cur.idx, ok1, ok2)
          /\ twin' = multiline_begin(twin, size2, Cur.idx, ok1, ok2)
    /\ Returned(em')

Call_multiline_end ==
    /\ Next_op("multiline_end")
    /\ \E ok \in BOOLEAN :
          /\ em' = multiline_end(em, ok)
          /\ twin' = multiline_end(twin, ok)
    /\ Returned(em')

Call_ring_begin ==
    /\ Next_op("ring_begin")
    /\ \E ok1 \in BOOLEAN, ok2 \in BOOLEAN, size2 \in WrongSizes(Cur.n) :
          /\ em' = ring_begin(em, Cur.n, Cur.idx, ok1, ok2)
          /\ twin' = ring_begin(twin, size2, Cur.idx, ok1, ok2)
    /\ Returned(em')

Call_ring_end ==
    /\ Next_op("ring_end")
    /\ \E ok \in BOOLEAN :
          /\ em' = ring_end(em, Cur.idx, ok)
          /\ twin' = ring_end(twin, Cur.idx, ok)
    /\ Returned(em')

Call_poly_begin ==
    /\ Next_op("poly_begin")
    /\ \E ok1 \in BOOLEAN, ok2 \in BOOLEAN, size2 \in WrongSizes(Cur.n) :
          /\ em' = poly_begin(em, Cur.n, Cur.idx, ok1, ok2)
          /\ twin' = poly_begin(twin, size2, Cur.idx, ok1, ok2)
    /\ Returned(em')

Call_poly_end ==
    /\ Next_op("poly_end")
    /\ \E ok \in BOOLEAN :
          /\ em' = poly_end(em, Cur.idx, ok)
          /\ twin' = poly_end(twin, Cur.idx, ok)
    /\ Returned(em')

Call_subpoly_begin ==
    /\ Next_op("subpoly_begin")
    /\ \E ok1 \in BOOLEAN, ok2 \in BOOLEAN, size2 \in WrongSizes(Cur.n) :
          /\ em' = subpoly_begin(em, Cur.n, Cur.idx, ok1, ok2)
          /\ twin' = subpoly_begin(twin, size2, Cur.idx, ok1, ok2)
    /\ Returned(em')

Call_subpoly_end ==
    /\ Next_op("subpoly_end")
    /\ \E ok \in BOOLEAN :
          /\ em' = subpoly_end(em, Cur.idx, ok)
          /\ twin' = subpoly_end(twin, Cur.idx, ok)
    /\ Returned(em')

Call_multipoly_begin ==
    /\ Next_op("multipoly_begin")
    /\ \E ok1 \in BOOLEAN, ok2 \in BOOLEAN, size2 \in WrongSizes(Cur.n) :
          /\ em' = multipoly_begin(em, Cur.n, Cur.idx, ok1, ok2)
          /\ twin' = multipoly_begin(twin, size2, Cur.idx, ok1, ok2)
    /\ Returned(em')

Call_multipoly_end ==
    /\ Next_op("multipoly_end")
    /\ \E ok \in BOOLEAN :
          /\ em' = multipoly_end(em, ok)
          /\ twin' = multipoly_end(twin, ok)
    /\ Returned(em')

Next ==
    \/ Call_pointxy
    \/ Call_point_begin
    \/ Call_point_end
    \/ Call_multipoint_begin
    \/ Call_multipoint_end
    \/ Call_line_begin
    \/ Call_line_end
    \/ Call_multiline_begin
    \/ Call_multiline_end
    \/ Call_ring_begin
    \/ Call_ring_end
    \/ Call_poly_begin
    \/ Call_poly_end
    \/ Call_subpoly_begin
    \/ Call_subpoly_end
    \/ Call_multipoly_begin
    \/ Call_multipoly_end

Spec == Init /\ [][Next]_vars

----------------------------------------------------------------------------
(* Signatures of the callbacks: the parameters each handler takes besides  *)
(* self, and the call a driver makes for an event.                         *)

\* ring_end declared without its index
Params_ring_end_bare(op) ==
    CASE op = "pointxy" -> {"x", "y", "idx"}
      [] op = "point_begin" -> {"idx"}
      [] op \in {"multipoint_begin", "line_begin", "multiline_begin",
                 "ring_begin", "poly_begin", "subpoly_begin",
                 "multipoly_begin"} -> {"size", "idx"}
      [] op \in {"line_end", "poly_end", "subpoly_end"} -> {"idx"}
      [] OTHER -> {}

Params(op) ==
    CASE op = "pointxy" -> {"x", "y", "idx"}
      [] op = "point_begin" -> {"idx"}
      [] op \in {"multipoint_begin", "line_begin", "multiline_begin",
                 "ring_begin", "poly_begin", "subpoly_begin",
                 "multipoly_begin"} -> {"size", "idx"}
      [] op \in {"line_end", "ring_end", "poly_end", "subpoly_end"} -> {"idx"}
      [] op \in {"point_end", "multipoint_end", "multiline_end",
                 "multipoly_end"} -> {}

Args(ev) ==
    [p \in Params(ev.op) |-> IF p = "size" THEN ev.n
                             ELSE IF p = "idx" THEN ev.idx
                             ELSE IF p = "x" THEN ev.x ELSE ev.y]


----------------------------------------------------------------------------
(* The same traversal run through two instances, one after the other: em   *)
(* receives every callback, then twin receives every callback.  Both were  *)
(* built by GeoJsonEmitter::new on their own empty destination, and both   *)
(* destinations accept every write.                                        *)

\* dynamic dispatch of one callback of the trait to its handler
Apply(e, ev, size, ok1, ok2) ==
    CASE ev.op = "pointxy" -> pointxy(e, ev.x, ev.y, ev.idx, ok1, ok2)
      [] ev.op = "point_begin" -> point_begin(e, ev.idx, ok1, ok2)
      [] ev.op = "point_end" -> point_end(e, ok2)
      [] ev.op = "multipoint_begin" -> multipoint_begin(e, size, ev.idx, ok1, ok2)
      [] ev.op = "multipoint_end" -> multipoint_end(e, ok2)
      [] ev.op = "line_begin" -> line_begin(e, size, ev.idx, ok1, ok2)
      [] ev.op = "line_end" -> line_end(e, ev.idx, ok2)
      [] ev.op = "multiline_begin" -> multiline_begin(e, size, ev.idx, ok1, ok2)
      [] ev.op = "multiline_end" -> multiline_end(e, ok2)
      [] ev.op = "ring_begin" -> ring_begin(e, size, ev.idx, ok1, ok2)
      [] ev.op = "ring_end" -> ring_end(e, ev.idx, ok2)
      [] ev.op = "poly_begin" -> poly_begin(e, size, ev.idx, ok1, ok2)
      [] ev.op = "poly_end" -> poly_end(e, ev.idx, ok2)
      [] ev.op = "subpoly_begin" -> subpoly_begin(e, size, ev.idx, ok1, ok2)
      [] ev.op = "subpoly_end" -> subpoly_end(e, ev.idx, ok2)
      [] ev.op = "multipoly_begin" -> multipoly_begin(e, size, ev.idx, ok1, ok2)
      [] ev.op = "multipoly_end" -> multipoly_end(e, ok2)

Rerun_first ==
    /\ pc <= Len(events)
    /\ em' = Apply(em, events[pc], events[pc].n, TRUE, TRUE)
    /\ pc' = pc + 1
    /\ ret' = "unit"
    /\ UNCHANGED <<geom, events, twin, sinkVars, mux>>

Rerun_second ==
    /\ pc > Len(events)
    /\ pc <= 2 * Len(events)
    /\ LET ev == events[pc - Len(events)]
       IN  twin' = Apply(twin, ev, ev.n, TRUE, TRUE)
    /\ pc' = pc + 1
    /\ ret' = "unit"
    /\ UNCHANGED <<geom, events, em, sinkVars, mux>>

RerunNext == Rerun_first \/ Rerun_second

RerunSpec == Init /\ [][RerunNext]_vars


----------------------------------------------------------------------------
(* Traversals with a Z component.  The impl block defines pointxy only;    *)
(* the coordinate callback for x, y, z is the trait's default method,      *)
(* which does nothing.                                                     *)

\* GeomReader default body of the 3D coordinate callback
pointxyz(e, x, y, z, idx) == e

ZPoints == {<<0, 0, 10>>, <<12, -5, 30>>}

ZGeometries ==
    {Geom("Point", <<p>>, <<>>, <<>>) : p \in ZPoints}
    \cup {Geom(k, l, <<>>, <<>>) :
             k \in {"MultiPoint", "LineString"}, l \in SeqsUpTo(ZPoints, MaxPts)}

PointEventsZ(pts) ==
    [i \in 1..Len(pts) |->
        [op |-> "pointxyz", x |-> pts[i][1], y |-> pts[i][2], z |-> pts[i][3],
         idx |-> i - 1, n |-> 0]]

ZEvents(g, top) ==
    CASE g.kind = "Point" ->
           Bracket("point_begin", "point_end", top, 1, PointEventsZ(g.pts))
      [] g.kind = "MultiPoint" ->
           Bracket("multipoint_begin", "multipoint_end", top, Len(g.pts),
                   PointEventsZ(g.pts))
      [] g.kind = "LineString" ->
           Bracket("line_begin", "line_end", top, Len(g.pts), PointEventsZ(g.pts))

ZInit ==
    /\ geom \in ZGeometries
    /\ \E top \in 0..MaxTopIdx : events = ZEvents(geom, top)
    /\ pc = 1
    /\ em = GeoJsonEmitter_new
    /\ twin = GeoJsonEmitter_new
    /\ ret = "none"
    /\ SinkIdle
    /\ mux = MuxIdle

Call_pointxyz ==
    /\ Next_op("pointxyz")
    /\ em' = pointxyz(em, Cur.x, Cur.y, Cur.z, Cur.idx)
    /\ twin' = pointxyz(twin, Cur.x, Cur.y, Cur.z, Cur.idx)
    /\ Returned(em')

ZNext ==
    \/ Call_pointxyz
    \/ Call_point_begin
    \/ Call_point_end
    \/ Call_multipoint_begin
    \/ Call_multipoint_end
    \/ Call_line_begin
    \/ Call_line_end

ZSpec == ZInit /\ [][ZNext]_vars


----------------------------------------------------------------------------
(* A destination that takes at most `limit` bytes per write call and       *)
(* reports Ok(n) with n < buf.len() for a longer buffer (a short write).   *)

ShortInit ==
    /\ geom \in Geometries
    /\ \E top \in 0..MaxTopIdx : events = Events(geom, top)
    /\ pc = 1
    /\ \E l \in 1..MaxAccept :
          /\ em = [GeoJsonEmitter_new EXCEPT !.limit = l]
          /\ twin = [GeoJsonEmitter_new EXCEPT !.limit = l]
    /\ ret = "none"
    /\ SinkIdle
    /\ mux = MuxIdle

ShortSpec == ShortInit /\ [][Next]_vars


----------------------------------------------------------------------------
(* ProcessorSink (geozero/src/lib.rs).  The three impl blocks are empty,   *)
(* so every callback is the trait's default method.                        *)

GeomOps ==
    {"pointxy", "point_begin", "point_end", "multipoint_begin",
     "multipoint_end", "line_begin", "line_end", "multiline_begin",
     "multiline_end", "ring_begin", "ring_end", "poly_begin", "poly_end",
     "subpoly_begin", "subpoly_end", "multipoly_begin", "multipoly_end"}
FeatureOps ==
    {"dataset_begin", "dataset_end", "feature_begin", "feature_end",
     "properties_begin", "properties_end", "geometry_begin", "geometry_end"}
PropertyOps == {"property"}
SinkArgs == {0, 1}

\* default method bodies of the processor traits: do nothing, succeed
GeomProcessor_default(s, op, arg) ==
    [sink |-> s, ret |-> "Ok", emitted |-> <<>>]
FeatureProcessor_default(s, op, arg) ==
    [sink |-> s, ret |-> "Ok", emitted |-> <<>>]
PropertyProcessor_default(s, op, arg) ==
    [sink |-> s, ret |-> "Ok", emitted |-> <<>>]

\* a sink whose impl block overrides the coordinate callback
ProcessorSink_GeomProcessor_override(s, op, arg) ==
    IF op = "pointxy"
    THEN [sink |-> s, ret |-> "Ok", emitted |-> <<"x">>]
    ELSE GeomProcessor_default(s, op, arg)

ProcessorSink_FeatureProcessor(s, op, arg) == FeatureProcessor_default(s, op, arg)
ProcessorSink_GeomProcessor(s, op, arg) == GeomProcessor_default(s, op, arg)
ProcessorSink_PropertyProcessor(s, op, arg) == PropertyProcessor_default(s, op, arg)

SinkInit ==
    /\ geom = Geom("Point", <<Origin>>, <<>>, <<>>)
    /\ events = <<>>
    /\ pc = 1
    /\ em = GeoJsonEmitter_new
    /\ twin = GeoJsonEmitter_new
    /\ ret = "none"
    /\ SinkIdle
    /\ mux = MuxIdle

Delivered(r, op, arg) ==
    /\ sink' = r.sink
    /\ sinkRet' = r.ret
    /\ sinkOut' = sinkOut \o r.emitted
    /\ sinkLog' = Append(sinkLog, [op |-> op, arg |-> arg])
    /\ UNCHANGED <<emitterVars, mux>>

Sink_feature ==
    /\ Len(sinkLog) < MaxSinkEvents
    /\ \E op \in FeatureOps, arg \in SinkArgs :
          Delivered(ProcessorSink_FeatureProcessor(sink, op, arg), op, arg)

Sink_geom ==
    /\ Len(sinkLog) < MaxSinkEvents
    /\ \E op \in GeomOps, arg \in SinkArgs :
          Delivered(ProcessorSink_GeomProcessor(sink, op, arg), op, arg)

Sink_property ==
    /\ Len(sinkLog) < MaxSinkEvents
    /\ \E op \in PropertyOps, arg \in SinkArgs :
          Delivered(ProcessorSink_PropertyProcessor(sink, op, arg), op, arg)

SinkNext == Sink_feature \/ Sink_geom \/ Sink_property

SinkSpec == SinkInit /\ [][SinkNext]_vars

----------------------------------------------------------------------------
(* Multiplexer (mod multiplex): one consumer that relays every event to    *)
(* its sub-consumers A, B, C in registration order and stops at the first  *)
(* one that fails.                                                         *)

Subs == <<"A", "B", "C">>
MuxErrors == {"E1", "E2"}
MuxEvents ==
    {[op |-> "line_begin", idx |-> 0], [op |-> "line_begin", idx |-> 1],
     [op |-> "pointxy", idx |-> 0], [op |-> "line_end", idx |-> 0]}

\* every sub-consumer called, the first failure returned at the end
RECURSIVE Forward_all(_, _, _, _)
Forward_all(t, ev, k, outcome) ==
    IF k > Len(Subs) THEN [trace |-> t, ret |-> "Ok"]
    ELSE LET rest == Forward_all(Append(t, [sub |-> Subs[k], ev |-> ev]),
                                 ev, k + 1, outcome)
         IN  IF outcome[k] = "Ok" THEN rest
             ELSE [trace |-> rest.trace, ret |-> outcome[k]]

\* sub-consumers k, k+1, ... called in order with the event unchanged;
\* outcome[k] is what sub-consumer k answers when it is called
RECURSIVE Forward(_, _, _, _)
Forward(t, ev, k, outcome) ==
    IF k > Len(Subs) THEN [trace |-> t, ret |-> "Ok"]
    ELSE LET called == Append(t, [sub |-> Subs[k], ev |-> ev])
         IN  IF outcome[k] # "Ok" THEN [trace |-> called, ret |-> outcome[k]]
             ELSE Forward(called, ev, k + 1, outcome)

FirstFailure(outcome) ==
    IF \A k \in DOMAIN outcome : outcome[k] = "Ok" THEN 0
    ELSE CHOOSE k \in DOMAIN outcome :
            /\ outcome[k] # "Ok"
            /\ \A j \in 1..(k - 1) : outcome[j] = "Ok"

MuxInit ==
    /\ geom = Geom("Point", <<Origin>>, <<>>, <<>>)
    /\ events = <<>>
    /\ pc = 1
    /\ em = GeoJsonEmitter_new
    /\ twin = GeoJsonEmitter_new
    /\ ret = "none"
    /\ SinkIdle
    /\ mux = MuxIdle

\* the driver hands the multiplexer one event, unless an earlier one failed
Mux_event ==
    /\ mux.ret \in {"none", "Ok"}
    /\ Len(mux.inp) < MaxMuxEvents
    /\ \E ev \in MuxEvents, outcome \in [1..Len(Subs) -> {"Ok"} \cup MuxErrors] :
          LET r == Forward(mux.trace, ev, 1, outcome)
              f == FirstFailure(outcome)
          IN  mux' = [inp |-> Append(mux.inp, ev),
                      trace |-> r.trace,
                      ret |-> r.ret,
                      failedAt |-> f,
                      raised |-> IF f = 0 THEN "none" ELSE outcome[f]]
    /\ UNCHANGED <<emitterVars, sinkVars>>

MuxNext == Mux_event

MuxSpec == MuxInit /\ [][MuxNext]_vars


----------------------------------------------------------------------------
(* Expected texts, written from the format of the reference encoding       *)

PointOpenText ==
    << "{", "\"", "t", "y", "p", "e", "\"", ":", " ", "\"", "P", "o", "i",
       "n", "t", "\"", ",", " ", "\"", "c", "o", "o", "r", "d", "i", "n",
       "a", "t", "e", "s", "\"", ":", " " >>

MultiPointOpenText ==
    << "{", "\"", "t", "y", "p", "e", "\"", ":", " ", "\"", "M", "u", "l",
       "t", "i", "P", "o", "i", "n", "t", "\"", ",", " ", "\"", "c", "o",
       "o", "r", "d", "i", "n", "a", "t", "e", "s", "\"", ":", " ", "[" >>

PolygonOpenText ==
    << "{", "\"", "t", "y", "p", "e", "\"", ":", " ", "\"", "P", "o", "l",
       "y", "g", "o", "n", "\"", ",", " ", "\"", "c", "o", "o", "r", "d",
       "i", "n", "a", "t", "e", "s", "\"", ":", " ", "[" >>

MultiPolygonOpenText ==
    << "{", "\"", "t", "y", "p", "e", "\"", ":", " ", "\"", "M", "u", "l",
       "t", "i", "P", "o", "l", "y", "g", "o", "n", "\"", ",", " ", "\"",
       "c", "o", "o", "r", "d", "i", "n", "a", "t", "e", "s", "\"", ":", " ",
       "[" >>

Scenario1Text ==
    << "{", "\"", "t", "y", "p", "e", "\"", ":", " ", "\"", "P", "o", "l",
       "y", "g", "o", "n", "\"", ",", " ", "\"", "c", "o", "o", "r", "d",
       "i", "n", "a", "t", "e", "s", "\"", ":", " ", "[", "[", "[", "0", ",",
       "0", "]", ",", "[", "1", ",", "0", "]", ",", "[", "1", ",", "1", "]",
       ",", "[", "0", ",", "0", "]", "]", ",", "[", "[", "0", ".", "2", ",",
       "0", ".", "2", "]", ",", "[", "0", ".", "8", ",", "0", ".", "2", "]",
       ",", "[", "0", ".", "8", ",", "0", ".", "8", "]", ",", "[", "0", ".",
       "2", ",", "0", ".", "2", "]", "]", "]", "}" >>

Scenario2Text ==
    << "{", "\"", "t", "y", "p", "e", "\"", ":", " ", "\"", "M", "u", "l",
       "t", "i", "P", "o", "i", "n", "t", "\"", ",", " ", "\"", "c", "o",
       "o", "r", "d", "i", "n", "a", "t", "e", "s", "\"", ":", " ", "[", "[",
       "1", ",", "1", "]", ",", "[", "2", ",", "2", "]", ",", "[", "3", ",",
       "3", "]", "]", "}" >>

EmptyMultiPointText ==
    << "{", "\"", "t", "y", "p", "e", "\"", ":", " ", "\"", "M", "u", "l",
       "t", "i", "P", "o", "i", "n", "t", "\"", ",", " ", "\"", "c", "o",
       "o", "r", "d", "i", "n", "a", "t", "e", "s", "\"", ":", " ", "[", "]",
       "}" >>

Scenario3FirstPointText ==
    << "{", "\"", "t", "y", "p", "e", "\"", ":", " ", "\"", "L", "i", "n",
       "e", "S", "t", "r", "i", "n", "g", "\"", ",", " ", "\"", "c", "o",
       "o", "r", "d", "i", "n", "a", "t", "e", "s", "\"", ":", " ", "[", "[",
       "0", ",", "0", "]" >>

\* decimal text of the coordinate values the inputs use
Decimal(v) ==
    CASE v = 0 -> <<"0">>
      [] v = 10 -> <<"1">>
      [] v = 20 -> <<"2">>
      [] v = 30 -> <<"3">>
      [] v = 2 -> <<"0", ".", "2">>
      [] v = 8 -> <<"0", ".", "8">>
      [] v = 12 -> <<"1", ".", "2">>
      [] v = -5 -> <<"-", "0", ".", "5">>

RECURSIVE JoinComma(_)
JoinComma(ts) ==
    IF ts = <<>> THEN <<>>
    ELSE IF Len(ts) = 1 THEN ts[1]
    ELSE ts[1] \o <<",">> \o JoinComma(Tail(ts))

Array(items) == <<"[">> \o JoinComma(items) \o <<"]">>
PositionText(p) == Array(<<Decimal(p[1]), Decimal(p[2])>>)
PositionsText(pts) == JoinComma([i \in 1..Len(pts) |-> PositionText(pts[i])])
RingText(ring) == <<"[">> \o PositionsText(ring) \o <<"]">>
PolygonCoordinatesText(rings) ==
    Array([r \in 1..Len(rings) |-> RingText(rings[r])])

Done == pc > Len(events)
Completed == Done /\ ~em.panicked
TopLevelFirst == events[1].idx = 0
Clean == Completed /\ TopLevelFirst

Count(s, c) == Cardinality({i \in 1..Len(s) : s[i] = c})

EndOps ==
    {"point_end", "multipoint_end", "line_end", "multiline_end", "ring_end",
     "poly_end", "subpoly_end", "multipoly_end"}
Closers == {"]", "}"}
Opener(c) == IF c = "]" THEN "[" ELSE "{"

IsBracket(c) == c \in {"[", "{"} \cup Closers
Brackets(s) == SelectSeq(s, IsBracket)

\* the brackets and braces b[i..] close what is open, in LIFO order
RECURSIVE Closes(_, _, _)
Closes(b, i, open) ==
    IF i > Len(b) THEN open = <<>>
    ELSE IF b[i] \notin Closers THEN Closes(b, i + 1, <<b[i]>> \o open)
    ELSE IF open = <<>> \/ Head(open) # Opener(b[i]) THEN FALSE
    ELSE Closes(b, i + 1, Tail(open))

\* brackets and braces of s are closed in LIFO order and none is left open
Nested(s) == Closes(Brackets(s), 1, <<>>)

\* the bytes the step's callback appended to the destination
Appended == SubSeq(em'.out, Len(em.out) + 1, Len(em'.out))

\* commas that separate siblings: the first byte, or right after a closing token
Separators(s) ==
    Cardinality({i \in 1..Len(s) :
                    s[i] = "," /\ (i = 1 \/ s[i - 1] \in Closers)})
LaterSiblings ==
    Cardinality({i \in 1..Len(events) :
                    events[i].op \notin EndOps /\ events[i].idx > 0})

----------------------------------------------------------------------------
(* C1: a Polygon traversal writes the Polygon header, the comma-separated  *)
(* rings, each a bracketed comma-separated list of [x,y], and then "]}";   *)
(* the two-ring scenario yields the text of scenario 1.                    *)
C1_PolygonText ==
    /\ (Clean /\ geom.kind = "Polygon") =>
          em.out = PolygonOpenText
                   \o JoinComma([r \in 1..Len(geom.parts) |-> RingText(geom.parts[r])])
                   \o <<"]", "}">>
    /\ (Clean /\ geom = Scenario1) => em.out = Scenario1Text

(* C2: after a completed (begin/end balanced) traversal the destination    *)
(* has every bracket and brace closed, in LIFO order, so as many "]" as    *)
(* "[" and as many "}" as "{".                                             *)
C2_Balanced ==
    Completed =>
        /\ Nested(em.out)
        /\ Count(em.out, "[") = Count(em.out, "]")
        /\ Count(em.out, "{") = Count(em.out, "}")

(* C3: a begin or coordinate callback that returns writes a comma first    *)
(* iff its index is > 0 and then its own token, an end callback writes no  *)
(* comma; no comma is directly followed by a closing token; a completed    *)
(* traversal holds one separating comma per sibling of index > 0.          *)
C3_CommaStep ==
    (pc' = pc + 1 /\ ~em'.panicked) =>
        IF Cur.op \in EndOps
        THEN Count(Appended, ",") = 0
        ELSE /\ Appended # <<>>
             /\ (Appended[1] = ",") <=> (Cur.idx > 0)
             /\ Cur.idx > 0 => (Len(Appended) >= 2 /\ Appended[2] # ",")
C3_NoTrailingComma ==
    \A i \in 1..(Len(em.out) - 1) :
        em.out[i] = "," => em.out[i + 1] \notin Closers
C3_Separators ==
    /\ [][C3_CommaStep]_vars
    /\ [](C3_NoTrailingComma)
    /\ [](Completed => Separators(em.out) = LaterSiblings)
C3_Witness ==
    /\ Completed
    /\ events[1].idx > 0
    /\ geom.kind = "MultiPolygon"
    /\ Len(geom.polys) = 2
    /\ Len(geom.polys[2]) = 2
    /\ Len(geom.polys[2][2]) = 2

(* C4: when a destination write fails inside a callback, the callback      *)
(* hands an error value back to the driver.                                *)
C4_ErrorReturned == em.failed => ret = "Err"

(* C5: once a destination write has failed, no later callback runs and no  *)
(* byte is appended; a 5-point LineString whose destination fails on the   *)
(* second coordinate ends with the header and the first point (and at most *)
(* the separator before the second).                                       *)
C5_FailedAtSecondPoint ==
    geom = Scenario3 /\ TopLevelFirst /\ em.failed /\ pc = 4
C5_StopStep == em.failed => (em'.out = em.out /\ pc' = pc)
C5_ShortCircuit ==
    /\ [][C5_StopStep]_vars
    /\ [](em.failed => pc <= Len(events) + 1)
    /\ [](C5_FailedAtSecondPoint =>
            em.out \in {Scenario3FirstPointText,
                        Scenario3FirstPointText \o <<",">>})
C5_Witness == C5_FailedAtSecondPoint /\ em.out = Scenario3FirstPointText \o <<",">>

(* C6: a MultiPoint traversal writes the MultiPoint header, the positions  *)
(* joined by single commas, and "]}"; scenario 2 and the empty MultiPoint  *)
(* yield their texts.                                                      *)
C6_MultiPointText ==
    /\ (Clean /\ geom.kind = "MultiPoint") =>
          em.out = MultiPointOpenText \o PositionsText(geom.pts) \o <<"]", "}">>
    /\ (Clean /\ geom = Scenario2) => em.out = Scenario2Text
    /\ (Clean /\ geom.kind = "MultiPoint" /\ geom.pts = <<>>) =>
          em.out = EmptyMultiPointText
C6_Witness == Clean /\ geom = Scenario2 /\ em.out = Scenario2Text

(* C7: a MultiPolygon traversal writes the MultiPolygon header, the        *)
(* comma-separated coordinate arrays of its polygons (each the array of    *)
(* rings of a Polygon) and "]}", with a single "type" header.              *)
C7_MultiPolygonText ==
    (Clean /\ geom.kind = "MultiPolygon") =>
        /\ em.out = MultiPolygonOpenText
                    \o JoinComma([p \in 1..Len(geom.polys) |->
                                     PolygonCoordinatesText(geom.polys[p])])
                    \o <<"]", "}">>
        /\ Count(em.out, "{") = 1
C7_Witness ==
    /\ Clean
    /\ geom.kind = "MultiPolygon"
    /\ Len(geom.polys) = 2
    /\ Len(geom.polys[1]) = 2
    /\ Len(geom.polys[1][1]) = 2

(* C8: a Point traversal writes the Point header, the position as one      *)
(* bracketed pair, and "}".                                                *)
C8_PointText ==
    (Clean /\ geom.kind = "Point") =>
        em.out = PointOpenText \o PositionText(geom.pts[1]) \o <<"}">>
C8_Witness == Clean /\ geom.kind = "Point" /\ geom.pts[1] = <<12, -5>>

(* C9: an emitter given size hints that differ from the child counts       *)
(* writes the same bytes as one given the child counts, and panics only    *)
(* when a destination write fails.                                         *)
C9_SizeIgnored ==
    /\ twin.out = em.out
    /\ twin.panicked = em.panicked
    /\ twin.panicked => twin.failed
    /\ em.panicked => em.failed
C9_Witness ==
    /\ Completed
    /\ geom.kind = "MultiPolygon"
    /\ Len(geom.polys) = 2
    /\ Len(geom.polys[1]) = 1
    /\ twin.out # <<>>

(* C10: every ProcessorSink callback, in any order and with any argument,  *)
(* succeeds, leaves the sink unchanged and emits nothing.                  *)
C10_SinkNoOp ==
    /\ sink = ProcessorSink_new
    /\ sinkOut = <<>>
    /\ sinkLog # <<>> => sinkRet = "Ok"
C10_Witness ==
    /\ Len(sinkLog) >= 2
    /\ sinkLog[1].op = "ring_end"
    /\ sinkLog[2].op \in {"pointxy", "property", "feature_end"}

IsPrefix(s, t) == Len(s) <= Len(t) /\ s = SubSeq(t, 1, Len(s))

BeginOps ==
    {"point_begin", "multipoint_begin", "line_begin", "multiline_begin",
     "ring_begin", "poly_begin", "subpoly_begin", "multipoly_begin"}
IndexedEndOps == {"line_end", "ring_end", "poly_end", "subpoly_end"}

\* index in events of the begin that the end at position i closes
RECURSIVE BeginBefore(_, _)
BeginBefore(j, depth) ==
    IF events[j].op \in EndOps THEN BeginBefore(j - 1, depth + 1)
    ELSE IF events[j].op \notin BeginOps THEN BeginBefore(j - 1, depth)
    ELSE IF depth = 0 THEN j
    ELSE BeginBefore(j - 1, depth - 1)
MatchingBegin(i) == BeginBefore(i - 1, 0)

\* the call the driver made last
LastCall == events[pc - 1]

Position3Text(p) == Array(<<Decimal(p[1]), Decimal(p[2]), Decimal(p[3])>>)

(* C13: in a traversal with Z every position is written with its z after   *)
(* x and y, so a Point yields the Point header, [x,y,z] and "}", and a      *)
(* MultiPoint its header, the [x,y,z] positions and "]}".                   *)
C13_ZWritten ==
    /\ (Clean /\ geom.kind = "Point") =>
          em.out = PointOpenText \o Position3Text(geom.pts[1]) \o <<"}">>
    /\ (Clean /\ geom.kind = "MultiPoint") =>
          em.out = MultiPointOpenText
                   \o JoinComma([i \in 1..Len(geom.pts) |-> Position3Text(geom.pts[i])])
                   \o <<"]", "}">>

\* the calls one event causes when sub-consumers 1..k are reached
CallsOf(ev, k) == [j \in 1..k |-> [sub |-> Subs[j], ev |-> ev]]
ExpectedTrace ==
    Flatten([i \in 1..Len(mux.inp) |->
                CallsOf(mux.inp[i],
                        IF i = Len(mux.inp) /\ mux.failedAt # 0
                        THEN mux.failedAt ELSE Len(Subs))])

(* C14: every event reaches A, then B, then C with its arguments           *)
(* unchanged; when a sub-consumer fails on an event the later              *)
(* sub-consumers do not receive it, nobody receives a later event, and     *)
(* the multiplexer returns the failure that sub-consumer raised.           *)
C14_Delivery ==
    /\ mux.trace = ExpectedTrace
    /\ mux.failedAt # 0 => mux.ret = mux.raised
    /\ (mux.failedAt = 0 /\ mux.inp # <<>>) => mux.ret = "Ok"
C14_FanOut ==
    /\ [](C14_Delivery)
    /\ [][mux.failedAt # 0 => mux'.trace = mux.trace]_vars
C14_Witness ==
    /\ Len(mux.inp) = 2
    /\ mux.failedAt = 2
    /\ mux.ret = "E2"
    /\ Len(mux.trace) = 5

MultiLineStringOpenText ==
    << "{", "\"", "t", "y", "p", "e", "\"", ":", " ", "\"", "M", "u", "l",
       "t", "i", "L", "i", "n", "e", "S", "t", "r", "i", "n", "g", "\"", ",",
       " ", "\"", "c", "o", "o", "r", "d", "i", "n", "a", "t", "e", "s",
       "\"", ":", " ", "[" >>

(* C15: a MultiLineString traversal writes one object: the MultiLineString *)
(* header, the comma-separated bracketed position arrays of its lines and  *)
(* "]}", with no "type" header but the top-level one.                      *)
C15_MultiLineStringText ==
    (Clean /\ geom.kind = "MultiLineString") =>
        /\ em.out = MultiLineStringOpenText
                    \o JoinComma([l \in 1..Len(geom.parts) |-> RingText(geom.parts[l])])
                    \o <<"]", "}">>
        /\ Count(em.out, "{") = 1

(* C16: the bytes already in the destination are never changed or removed  *)
(* (the content before a step is a prefix of the content after it), and a  *)
(* callback that returns has added its token to the destination.           *)
C16_AppendStep ==
    /\ IsPrefix(em.out, em'.out)
    /\ (pc' = pc + 1 /\ ~em'.panicked) => Len(em'.out) > Len(em.out)
C16_AppendOnly == [][C16_AppendStep]_vars
C16_Witness ==
    /\ Completed
    /\ geom = Scenario1
    /\ Len(em.out) > Len(PolygonOpenText)

\* the separator and token a callback offers to the destination
Token(ev) == Apply(GeoJsonEmitter_new, ev, ev.n, TRUE, TRUE).out

(* C17: a callback that returns normally has appended its complete token   *)
(* (separator and literal), also when the destination takes fewer bytes    *)
(* than offered in one write call.                                         *)
C17_WholeTokenStep ==
    (pc' = pc + 1 /\ ~em'.panicked) => Appended = Token(Cur)
C17_WholeToken == [][C17_WholeTokenStep]_vars

====
